---- MODULE Spec2Model ----
(***************************************************************************)
(* Model of sync_patchwork.py (bluez/action-ci): the engine that turns    *)
(* the pending series of a Patchwork tracker into pull requests.          *)
(*                                                                         *)
(* Text is modelled as a sequence of tokens.  "/" , " ", "[", "]" and     *)
(* every decimal digit are tokens of their own, so prefix stripping,      *)
(* substring search and integer formatting/parsing are computed, not      *)
(* assumed.                                                                *)
(***************************************************************************)
EXTENDS Integers, Sequences, FiniteSets, TLC

(* ------------------------------------------------------------------ *)
(* Bounds of the model                                                 *)
(* ------------------------------------------------------------------ *)
\* longest pending-series list get_series_by_state(1) returns
MaxPending == 2

(* ------------------------------------------------------------------ *)
(* Text primitives (Python str operations)                             *)
(* ------------------------------------------------------------------ *)
\* Python's None
None == <<"<None>">>

Digits == {"0", "1", "2", "3", "4", "5", "6", "7", "8", "9"}

DigitOf(n) ==
    CASE n = 0 -> "0" [] n = 1 -> "1" [] n = 2 -> "2" [] n = 3 -> "3"
      [] n = 4 -> "4" [] n = 5 -> "5" [] n = 6 -> "6" [] n = 7 -> "7"
      [] n = 8 -> "8" [] n = 9 -> "9"

ValueOf(d) == CHOOSE n \in 0..9 : DigitOf(n) = d

\* str(n) as used by the f-strings: decimal digits, most significant first
RECURSIVE Str(_)
Str(n) == IF n < 10 THEN <<DigitOf(n)>>
          ELSE Str(n \div 10) \o <<DigitOf(n % 10)>>

\* int(s) for a string of decimal digits
RECURSIVE IntOf(_)
IntOf(s) == IF Len(s) = 0 THEN 0
          ELSE 10 * IntOf(SubSeq(s, 1, Len(s) - 1)) + ValueOf(s[Len(s)])

\* t occurs in s starting at position i
OccursAt(s, t, i) ==
    /\ i >= 1
    /\ i + Len(t) - 1 <= Len(s)
    /\ \A k \in 1..Len(t) : s[i + k - 1] = t[k]

\* s.find(t): position of the first occurrence (1-based), 0 when absent
\* (Python returns the 0-based position, -1 when absent)
Find(s, t) ==
    IF \E i \in 1..(Len(s) + 1) : OccursAt(s, t, i)
    THEN CHOOSE i \in 1..(Len(s) + 1) :
            /\ OccursAt(s, t, i)
            /\ \A j \in 1..(i - 1) : ~OccursAt(s, t, j)
    ELSE 0

\* lower-casing of a token (re.IGNORECASE compares case-folded text)
Lower(t) ==
    CASE t = "RFC" -> "rfc"
      [] t = "BlueZ" -> "bluez"
      [] t = "PW_SID:" -> "pw_sid:"
      [] OTHER -> t

LowerStr(s) == [i \in 1..Len(s) |-> Lower(s[i])]

\* re.search(pattern, text, re.IGNORECASE) for a pattern that is a literal,
\* optionally anchored with ^ : pattern = [anchor |-> BOOLEAN, lit |-> text]
ReSearchI(pattern, text) ==
    IF pattern.anchor
    THEN OccursAt(LowerStr(text), LowerStr(pattern.lit), 1)
    ELSE Find(LowerStr(text), LowerStr(pattern.lit)) > 0

(* ------------------------------------------------------------------ *)
(* DiffAnalyzer: a diff is None or a text, its lines separated by "\n" *)
(* ------------------------------------------------------------------ *)
\* patch.split('\n')
RECURSIVE SplitLines(_)
SplitLines(text) ==
    LET p == Find(text, <<"\n">>)
    IN IF p = 0 THEN <<text>>
       ELSE <<SubSeq(text, 1, p - 1)>>
                \o SplitLines(SubSeq(text, p + 1, Len(text)))

\* the text whose lines are the given ones
RECURSIVE JoinLines(_)
JoinLines(lines) ==
    IF Len(lines) = 0 THEN <<>>
    ELSE IF Len(lines) = 1 THEN lines[1]
    ELSE lines[1] \o <<"\n">> \o JoinLines(Tail(lines))

\* re.search(r'^\-\-\- ', line)
IsMinusLine(line) == OccursAt(line, <<"---", " ">>, 1)

\* line.find('dev/null') >= 0
HasDevNull(line) == Find(line, <<"dev", "/", "null">>) > 0

\* line[line.find('/')+1:]
StripPrefix(line) == SubSeq(line, Find(line, <<"/">>) + 1, Len(line))

RECURSIVE NewFilesFrom(_, _)
NewFilesFrom(lines, i) ==
    IF i > Len(lines) THEN <<>>
    ELSE IF IsMinusLine(lines[i]) /\ HasDevNull(lines[i])
         THEN IF i + 1 > Len(lines)
              THEN <<>>
              ELSE <<StripPrefix(lines[i + 1])>> \o NewFilesFrom(lines, i + 2)
         ELSE NewFilesFrom(lines, i + 1)

patch_get_new_file_list(patch) ==
    IF patch = None THEN <<>> ELSE NewFilesFrom(SplitLines(patch), 1)

RECURSIVE FilesFrom(_, _)
FilesFrom(lines, i) ==
    IF i > Len(lines) THEN <<>>
    ELSE IF IsMinusLine(lines[i]) /\ ~HasDevNull(lines[i])
         THEN <<StripPrefix(lines[i])>> \o FilesFrom(lines, i + 1)
         ELSE FilesFrom(lines, i + 1)

patch_get_file_list(patch) ==
    IF patch = None THEN <<>> ELSE FilesFrom(SplitLines(patch), 1)

\* file_list += patch_get_file_list(full_patch['diff'])
RECURSIVE FileListOver(_, _)
FileListOver(patches, i) ==
    IF i > Len(patches) THEN <<>>
    ELSE patch_get_file_list(patches[i].diff) \o FileListOver(patches, i + 1)

\* new_file_list += patch_get_new_file_list(full_patch['diff'])
RECURSIVE NewFileListOver(_, _)
NewFileListOver(patches, i) ==
    IF i > Len(patches) THEN <<>>
    ELSE patch_get_new_file_list(patches[i].diff)
            \o NewFileListOver(patches, i + 1)

InSeq(x, s) == \E i \in 1..Len(s) : s[i] = x

RECURSIVE Without(_, _)
Without(s, drop) ==
    IF Len(s) = 0 THEN <<>>
    ELSE IF InSeq(Head(s), drop) THEN Without(Tail(s), drop)
         ELSE <<Head(s)>> \o Without(Tail(s), drop)

series_get_file_list(series, ignore_new_file) ==
    LET file_list == FileListOver(series.patches, 1)
        new_file_list == IF ignore_new_file
                         THEN NewFileListOver(series.patches, 1)
                         ELSE <<>>
    IN IF ignore_new_file = FALSE \/ Len(new_file_list) = 0
       THEN file_list
       ELSE Without(file_list, new_file_list)

(* ------------------------------------------------------------------ *)
(* RepoSpaceFilter                                                     *)
(* ------------------------------------------------------------------ *)
\* os.path.join(src_dir, filename): an absolute filename replaces src_dir
PathJoin(src_dir, filename) ==
    IF Len(filename) > 0 /\ filename[1] = "/" THEN filename
    ELSE IF Len(src_dir) > 0 /\ src_dir[Len(src_dir)] = "/" THEN src_dir \o filename
    ELSE src_dir \o <<"/">> \o filename

\* fs: the set of paths for which os.path.exists is true
filter_repo_space(space_details, series, src_dir, fs) ==
    IF \E i \in 1..Len(space_details.exclude) :
            ReSearchI(space_details.exclude[i], series.name)
    THEN FALSE
    ELSE IF \E i \in 1..Len(space_details.include) :
            ReSearchI(space_details.include[i], series.name)
    THEN TRUE
    ELSE LET file_list == series_get_file_list(series, TRUE)
         IN IF Len(file_list) = 0 THEN FALSE
            ELSE \A i \in 1..Len(file_list) :
                    PathJoin(src_dir, file_list[i]) \in fs

(* ------------------------------------------------------------------ *)
(* Pull-request titles                                                 *)
(* ------------------------------------------------------------------ *)
\* faulty variant: the title carries the id of the first patch
PrTitle_of_first_patch(series) ==
    <<"[", "PW_SID:">> \o Str(series.patches[1].id) \o <<"]", " ">>
        \o series.name

\* f"[PW_SID:{series['id']}] {series['name']}"
PrTitle(series) ==
    <<"[", "PW_SID:">> \o Str(series.id) \o <<"]", " ">> \o series.name

\* faulty variant: the tag searched for carries the id of the first patch
PrTag_of_first_patch(series) == <<"PW_SID:">> \o Str(series.patches[1].id)

\* f"PW_SID:{series['id']}"
PrTag(series) == <<"PW_SID:">> \o Str(series.id)

\* length of the run of digits of s that starts at position i
RECURSIVE DigitRun(_, _)
DigitRun(s, i) ==
    IF i <= Len(s) /\ s[i] \in Digits THEN 1 + DigitRun(s, i + 1) ELSE 0

\* a "[PW_SID:<integer>]" tag starts at position i of title
TagAt(title, i) ==
    /\ OccursAt(title, <<"[", "PW_SID:">>, i)
    /\ DigitRun(title, i + 2) >= 1
    /\ i + 2 + DigitRun(title, i + 2) <= Len(title)
    /\ title[i + 2 + DigitRun(title, i + 2)] = "]"

\* libs.pr_get_sid: the digits of the first tag of the title, None without tag
pr_get_sid(title) ==
    IF \E i \in 1..Len(title) : TagAt(title, i)
    THEN LET p == CHOOSE i \in 1..Len(title) :
                    TagAt(title, i) /\ \A j \in 1..(i - 1) : ~TagAt(title, j)
         IN SubSeq(title, p + 2, p + 1 + DigitRun(title, p + 2))
    ELSE None

\* GithubTool.pr_exist_title: some open PR's title contains the text
pr_exist_title(prs, text) == \E pr \in prs : Find(pr.title, text) > 0

\* faulty variant: the search returns after comparing the first series only
sid_in_series_list_first_only(sid, series_list) ==
    Len(series_list) > 0 /\ IntOf(sid) = series_list[1].id

sid_in_series_list(sid, series_list) ==
    \E i \in 1..Len(series_list) : IntOf(sid) = series_list[i].id

(* ------------------------------------------------------------------ *)
(* Failure notification                                                *)
(* ------------------------------------------------------------------ *)
\* EMAIL_MESSAGE.format(content=content)
EMAIL_MESSAGE(content) == <<"This is an automated email ... ----- Output -----">>
                          \o content
                          \o <<"Please resolve the issue ... Linux Bluetooth">>

is_maintainers_only(email_config) == email_config.only_maintainers

get_receivers(email_config, submitter) ==
    IF is_maintainers_only(email_config)
    THEN email_config.maintainers
    ELSE <<email_config.default_to, submitter>>

(* ------------------------------------------------------------------ *)
(* The tracker's queue, the configuration and the hosting platform     *)
(* ------------------------------------------------------------------ *)
MakefileDiff == JoinLines(<< <<"---", " ", "a", "/", "Makefile">>,
                             <<"+++", " ", "b", "/", "Makefile">> >>)

Patch(id, name) ==
    [id |-> id, name |-> name, msgid |-> <<"msgid-">> \o Str(id),
     diff |-> MakefileDiff, content |-> <<"commit message ">> \o Str(id)]

\* the series the tracker may hold in state 1 (new)
Series10 == [id |-> 10, name |-> <<"BlueZ", " ", "foo">>,
             patches |-> <<Patch(1, <<"foo", " ", "1">>),
                           Patch(2, <<"foo", " ", "2">>),
                           Patch(3, <<"foo", " ", "3">>)>>,
             submitter |-> [email |-> "dev@example.org"]]

Series100 == [id |-> 100, name |-> None,
              patches |-> <<Patch(4, <<"fix", " ", "Makefile">>)>>,
              submitter |-> [email |-> "dev@example.org"]]

Series5 == [id |-> 5, name |-> <<"RFC", " ", "bar">>,
            patches |-> <<Patch(5, <<"bar">>)>>,
            submitter |-> [email |-> "dev@example.org"]]

AllSeries == {Series10, Series100, Series5}

PatchIds == {1, 2, 3, 4, 5}

\* lists of distinct series of at most n entries
SeriesLists(n) ==
    {l \in UNION {[1..k -> AllSeries] : k \in 0..n} :
        \A i, j \in 1..Len(l) : i # j => l[i].id # l[j].id}

\* ci_data.config
space_details == [exclude |-> <<[anchor |-> TRUE, lit |-> <<"RFC">>]>>,
                  include |-> <<[anchor |-> FALSE, lit |-> <<"bluez">>]>>]
src_dir == <<"/", "src">>
fs == {<<"/", "src">>, <<"/", "src", "/", "Makefile">>}
branch == <<"master">>
email_config == [only_maintainers |-> FALSE,
                 maintainers |-> <<"maintainer@example.org">>,
                 default_to |-> "list@example.org"]

\* pull requests that may be open on the hosting platform before the run
OldPR10 == [number |-> 1, title |-> PrTitle(Series10)]
OldPR99 == [number |-> 2, title |-> <<"[", "PW_SID:", "9", "9", "]", " ", "bar">>]
OldPRUnrelated == [number |-> 3, title |-> <<"Unrelated", " ", "PR">>]
OldPRs == {OldPR10, OldPR99, OldPRUnrelated}

\* name of a series after run_series has replaced a missing name
NamedSeries(series) ==
    IF series.name = None
    THEN [series EXCEPT !.name = series.patches[1].name]
    ELSE series

\* check statuses earlier runs of the engine can have left for one series:
\* success for the patches that applied, fail for the one that did not,
\* pending for the rest; a series the filter rejects was never reported
LeftByEarlierRun(chk, series) ==
    \E k \in 0..Len(series.patches), failed \in BOOLEAN :
        /\ k > 0 => filter_repo_space(space_details, NamedSeries(series), src_dir, fs)
        /\ failed => k > 0
        /\ \A i \in 1..Len(series.patches) :
              chk[series.patches[i].id] =
                 IF i < k THEN "success"
                 ELSE IF i = k THEN (IF failed THEN "fail" ELSE "success")
                 ELSE "pending"

CheckStates == {"pending", "success", "fail"}

VARIABLES
    dry_run,          \* ci_data.config['dry_run']
    disable_pr,       \* ci_data.config['disable_pr']
    check,            \* tracker: check status of every patch
    prs,              \* hosting platform: the open pull requests
    next_pr,          \* hosting platform: number of the next pull request
    new_series,       \* main: the list get_series_by_state(1) returned
    idx,              \* run_series: number of series the loop has finished
    pc,               \* position of the program
    pidx,             \* series_check_patches: index of the patch being applied
    already_checked,  \* series_check_patches: already_checked
    verdict,          \* series_check_patches: verdict
    content,          \* series_check_patches: content
    calls,            \* calls made to the collaborators for the current series
    result,           \* return value of series_check_patches, "none" before
    visited,          \* ids of the series the loop of run_series has taken
    outcomes,         \* how the loop of run_series left each series it took
    cleanup_prs,      \* cleanup_pullrequest: the list get_prs returned
    cidx,             \* cleanup_pullrequest: number of PRs the loop has finished
    closed,           \* numbers close_pr was called with
    cleanups,         \* number of cleanup_pullrequest calls of the run
    runs,             \* number of runs of main started so far
    check0,           \* tracker: the check statuses when the run started
    first_pr,         \* hosting platform: next_pr when the run started
    prev_ids,         \* ids of the pending list of the previous run
    same_list,        \* the pending list is the one of the previous run
    flt,              \* one call of filter_repo_space, step by step
    dfa               \* one call of series_get_file_list, step by step

vars == <<dry_run, disable_pr, check, prs, next_pr, new_series, idx, pc, pidx,
          already_checked, verdict, content, calls, result, visited,
          outcomes, cleanup_prs, cidx, closed, cleanups, runs, check0,
          first_pr, prev_ids, same_list, flt, dfa>>

config == <<dry_run, disable_pr>>
locals == <<pidx, already_checked, verdict, content>>
cleanup == <<cleanup_prs, cidx, closed, cleanups>>
hosting == <<prs, next_pr>>
taken == <<visited, outcomes>>
history == <<runs, check0, first_pr, prev_ids, same_list>>
others == <<history, flt, dfa>>

\* the filter and the diff analysis when no call of them is being followed
Idle == [pc |-> "idle"]

\* the state of main before get_series_by_state, for given flags, tracker
\* and hosting platform
BeforeMain ==
    /\ new_series = <<>>
    /\ idx = 0
    /\ pc = "main"
    /\ pidx = 1
    /\ already_checked = FALSE
    /\ verdict = TRUE
    /\ content = <<>>
    /\ calls = <<>>
    /\ result = "none"
    /\ visited = <<>>
    /\ outcomes = <<>>
    /\ cleanup_prs = <<>>
    /\ cidx = 0
    /\ closed = <<>>
    /\ cleanups = 0
    /\ runs = 1
    /\ check0 = check
    /\ first_pr = next_pr
    /\ prev_ids = <<>>
    /\ same_list = FALSE

Init ==
    /\ dry_run \in BOOLEAN
    /\ disable_pr \in BOOLEAN
    /\ check \in [PatchIds -> CheckStates]
    /\ \A series \in AllSeries : LeftByEarlierRun(check, series)
    /\ prs \in SUBSET OldPRs
    /\ next_pr = Cardinality(OldPRs) + 1
    /\ BeforeMain
    /\ flt = Idle
    /\ dfa = Idle

(* ------------------------------------------------------------------ *)
(* main                                                                *)
(* ------------------------------------------------------------------ *)
\* if len(new_series) == 0: return
AfterFetch(list) == IF Len(list) = 0 THEN "done" ELSE "run_series"

\* series['id'] of the series of a list, in order
Ids(list) == [i \in 1..Len(list) |-> list[i].id]

\* new_series = get_series_by_state(1); an empty list ends the run
Main ==
    /\ pc = "main"
    /\ \E list \in SeriesLists(MaxPending) :
          /\ new_series' = list
          /\ pc' = AfterFetch(list)
          /\ same_list' = (runs > 1 /\ prev_ids = Ids(list))
    /\ prev_ids' = <<>>
    /\ UNCHANGED <<runs, check0, first_pr, flt, dfa, config, check, hosting,
                   idx, locals, calls, result, taken, cleanup>>

(* ------------------------------------------------------------------ *)
(* run_series                                                          *)
(* ------------------------------------------------------------------ *)
\* the series the loop of run_series is at, and the one being checked
Current == new_series[idx + 1]

\* the loop takes the next series and replaces a missing name
Taken == NamedSeries(Current)

TakeSeries ==
    /\ pc = "run_series"
    /\ idx < Len(new_series)
    /\ new_series' = [new_series EXCEPT ![idx + 1] = Taken]
    /\ visited' = Append(visited, Taken.id)
    /\ calls' = <<>>
    /\ result' = "none"

\* filter_repo_space rejects the series: continue
SeriesNotForRepo ==
    /\ TakeSeries
    /\ ~filter_repo_space(space_details, Taken, src_dir, fs)
    /\ idx' = idx + 1
    /\ outcomes' = Append(outcomes, "not for this repo")
    /\ UNCHANGED <<others, config, check, hosting, pc, locals, cleanup>>

\* a PR with the tag of the series is open: continue
SeriesPrExists ==
    /\ TakeSeries
    /\ filter_repo_space(space_details, Taken, src_dir, fs)
    /\ pr_exist_title(prs, PrTag(Taken))
    /\ idx' = idx + 1
    /\ outcomes' = Append(outcomes, "PR exists already")
    /\ UNCHANGED <<others, config, check, hosting, pc, locals, cleanup>>

\* the series is handed to series_check_patches
SeriesStart ==
    /\ TakeSeries
    /\ filter_repo_space(space_details, Taken, src_dir, fs)
    /\ ~pr_exist_title(prs, PrTag(Taken))
    /\ pc' = "checkout_base"
    /\ pidx' = 1
    /\ already_checked' = FALSE
    /\ verdict' = TRUE
    /\ content' = <<>>
    /\ UNCHANGED <<others, config, check, hosting, idx, outcomes, cleanup>>

\* the loop of run_series has taken every series: main goes on to the cleanup
RunSeriesDone ==
    /\ pc = "run_series"
    /\ idx = Len(new_series)
    /\ pc' = "cleanup"
    /\ UNCHANGED <<others, config, check, hosting, new_series, idx, locals, calls,
                   result, taken, cleanup>>

(* ------------------------------------------------------------------ *)
(* series_check_patches                                                *)
(* ------------------------------------------------------------------ *)
\* return r: run_series ignores the value and goes to the next series
Return(r) ==
    /\ result' = r
    /\ outcomes' = Append(outcomes, r)
    /\ idx' = idx + 1
    /\ pc' = "run_series"

\* faulty variant: a failed checkout of the base branch ends the whole run
AfterCheckoutBase_exits(rc) == IF rc # 0 THEN "done" ELSE "checkout_branch"

\* git_checkout(config['branch']): a non-zero exit code ends the series
AfterCheckoutBase(rc) == IF rc # 0 THEN "return" ELSE "checkout_branch"

CheckoutBase ==
    /\ pc = "checkout_base"
    /\ \E rc \in {0, 1} :
          /\ calls' = Append(calls, [op |-> "git_checkout", ref |-> branch,
                                     create_branch |-> FALSE, rc |-> rc])
          /\ IF AfterCheckoutBase(rc) = "return"
             THEN Return("False")
             ELSE /\ pc' = AfterCheckoutBase(rc)
                  /\ UNCHANGED <<idx, result, outcomes>>
    /\ UNCHANGED <<others, config, check, hosting, new_series, locals, visited, cleanup>>

\* git_checkout(series id, create_branch=True), then the first patch's check
AfterCheckoutBranch(rc) == IF rc # 0 THEN "return" ELSE "apply"

IsAlreadyChecked(patch_1_check) == patch_1_check # "pending"

CheckoutBranch ==
    /\ pc = "checkout_branch"
    /\ \E rc \in {0, 1} :
          /\ calls' = Append(calls, [op |-> "git_checkout", ref |-> Str(Current.id),
                                     create_branch |-> TRUE, rc |-> rc])
          /\ IF AfterCheckoutBranch(rc) = "return"
             THEN /\ Return("False")
                  /\ UNCHANGED already_checked
             ELSE /\ pc' = AfterCheckoutBranch(rc)
                  /\ already_checked' = IsAlreadyChecked(check[Current.patches[1].id])
                  /\ UNCHANGED <<idx, result, outcomes>>
    /\ UNCHANGED <<others, config, check, hosting, new_series, pidx, verdict, content,
                   visited, cleanup>>

\* src_repo.stderr after a failed git am of the patch
AmStderr(patch) == <<"error: patch failed: ">> \o patch.name

\* tracker: effect of post_check(patch, context, verdict, description)
Posted(chk, patch, v) ==
    [chk EXCEPT ![patch.id] = IF v = 1 THEN "success" ELSE "fail"]

PostCheckCall(patch, v, desc, ok) ==
    [op |-> "post_check", patch |-> patch.id, context |-> "pre-ci_am",
     verdict |-> v, desc |-> desc, ok |-> ok]

\* faulty variant: the failure report is skipped for already_checked only
SkipFailReport_ignores_dry_run == already_checked

\* if ci_data.config['dry_run'] or already_checked   (git am failed)
SkipFailReport == dry_run \/ already_checked

\* faulty variant: the dry_run test of the success report is inverted
SkipSuccessReport_inverted == ~dry_run \/ already_checked

\* if ci_data.config['dry_run'] or already_checked   (git am success)
SkipSuccessReport == dry_run \/ already_checked

\* one turn of the patch loop
ApplyPatch ==
    /\ pc = "apply"
    /\ LET patch == Current.patches[pidx]
       IN \E rc \in {0, 1}, ok \in BOOLEAN :
            LET am == [op |-> "git_am", patch |-> patch.id, rc |-> rc]
            IN IF rc # 0
               THEN /\ verdict' = FALSE
                    /\ content' = AmStderr(patch)
                    /\ pc' = "after_loop"
                    /\ UNCHANGED pidx
                    /\ IF SkipFailReport
                       THEN /\ ok
                            /\ calls' = calls \o <<am, [op |-> "git_am_abort"]>>
                            /\ UNCHANGED check
                       ELSE /\ calls' = calls \o
                                 <<am, [op |-> "git_am_abort"],
                                   PostCheckCall(patch, 3, AmStderr(patch), ok)>>
                            /\ check' = IF ok THEN Posted(check, patch, 3) ELSE check
               ELSE /\ UNCHANGED <<verdict, content>>
                    /\ pidx' = pidx + 1
                    /\ pc' = IF pidx = Len(Current.patches) THEN "after_loop" ELSE "apply"
                    /\ IF SkipSuccessReport
                       THEN /\ ok
                            /\ calls' = Append(calls, am)
                            /\ UNCHANGED check
                       ELSE /\ calls' = calls \o
                                 <<am, PostCheckCall(patch, 1, <<"Success">>, ok)>>
                            /\ check' = IF ok THEN Posted(check, patch, 1) ELSE check
    /\ UNCHANGED <<others, config, hosting, new_series, idx, already_checked, result,
                   taken, cleanup>>

\* faulty variant: the notification is skipped in a dry run only
SkipEmail_ignores_already_checked == dry_run

\* if ci_data.config['dry_run'] or already_checked   (after the loop)
SkipEmail == dry_run \/ already_checked

\* not verdict, and the notification is skipped: return False
NotifySkipped ==
    /\ pc = "after_loop"
    /\ ~verdict
    /\ SkipEmail
    /\ Return("False")
    /\ UNCHANGED <<others, config, check, hosting, new_series, locals, calls, visited,
                   cleanup>>

\* send_email: if ci_data.config['dry_run']: return (before email.send)
SendSkipped == dry_run

\* set_receivers and compose, as send_email calls them
Composed(series, text) ==
    LET headers == [In_Reply_To |-> series.patches[1].msgid,
                    References |-> series.patches[1].msgid,
                    Reply_To |-> IF ~is_maintainers_only(email_config)
                                 THEN email_config.default_to ELSE "-"]
    IN <<[op |-> "set_receivers",
          receivers |-> get_receivers(email_config, series.submitter.email)],
         [op |-> "compose", subject |-> <<"RE: ">> \o series.name,
          body |-> EMAIL_MESSAGE(text), headers |-> headers]>>

\* faulty variant: send_email returns after compose, whatever dry_run is
send_email_never_sends(series, text) == Composed(series, text)

\* the calls send_email(ci_data, series, content) makes
send_email(series, text) ==
    IF SendSkipped
    THEN Composed(series, text)
    ELSE Append(Composed(series, text), [op |-> "send"])

\* not verdict: notify the submitter, return False
Notify ==
    /\ pc = "after_loop"
    /\ ~verdict
    /\ ~SkipEmail
    /\ calls' = calls \o send_email(Current, content)
    /\ Return("False")
    /\ UNCHANGED <<others, config, check, hosting, new_series, locals, visited, cleanup>>

\* if ci_data.config['disable_pr']: return True
PrDisabled ==
    /\ pc = "after_loop"
    /\ verdict
    /\ disable_pr
    /\ Return("True")
    /\ UNCHANGED <<others, config, check, hosting, new_series, locals, calls, visited,
                   cleanup>>

\* faulty variant: the exit code of git_push is not tested
AfterPush_ignores_rc(rc) == "create_pr"

\* git_push(series id): a non-zero exit code ends the series
AfterPush(rc) == IF rc # 0 THEN "return" ELSE "create_pr"

GitPush ==
    /\ pc = "after_loop"
    /\ verdict
    /\ ~disable_pr
    /\ \E rc \in {0, 1} :
          /\ calls' = Append(calls, [op |-> "git_push", ref |-> Str(Current.id),
                                     rc |-> rc])
          /\ IF AfterPush(rc) = "return"
             THEN Return("False")
             ELSE /\ pc' = AfterPush(rc)
                  /\ UNCHANGED <<idx, result, outcomes>>
    /\ UNCHANGED <<others, config, check, hosting, new_series, locals, visited, cleanup>>

\* the create_pr call of series_check_patches
CreatePrCall(series, ok) ==
    [op |-> "create_pr", title |-> PrTitle(series),
     body |-> series.patches[1].content, base |-> branch,
     head |-> Str(series.id), ok |-> ok]

\* gh.create_pr(...): its result is the result of series_check_patches
CreatePr ==
    /\ pc = "create_pr"
    /\ \E ok \in BOOLEAN :
          /\ calls' = Append(calls, CreatePrCall(Current, ok))
          /\ IF ok
             THEN /\ prs' = prs \cup {[number |-> next_pr,
                                       title |-> PrTitle(Current)]}
                  /\ next_pr' = next_pr + 1
                  /\ Return("True")
             ELSE /\ UNCHANGED hosting
                  /\ Return("False")
    /\ UNCHANGED <<others, config, check, new_series, locals, visited, cleanup>>

(* ------------------------------------------------------------------ *)
(* cleanup_pullrequest                                                 *)
(* ------------------------------------------------------------------ *)
\* the open pull requests as a list, by number
RECURSIVE ByNumber(_)
ByNumber(set) ==
    IF set = {} THEN <<>>
    ELSE LET first == CHOOSE pr \in set : \A o \in set : pr.number <= o.number
         IN <<first>> \o ByNumber(set \ {first})

\* faulty variant: get_prs without force=True answers from the list the
\* first call cached
CleanupStart_cached ==
    /\ pc = "cleanup"
    /\ cleanup_prs' = IF cleanups = 0 THEN ByNumber(prs) ELSE cleanup_prs
    /\ cidx' = 0
    /\ cleanups' = cleanups + 1
    /\ pc' = "cleanup_loop"
    /\ UNCHANGED <<others, config, check, hosting, new_series, idx, locals,
                   calls, result, taken, closed>>

\* prs = ci_data.gh.get_prs(force=True)
CleanupStart ==
    /\ pc = "cleanup"
    /\ cleanup_prs' = ByNumber(prs)
    /\ cidx' = 0
    /\ cleanups' = cleanups + 1
    /\ pc' = "cleanup_loop"
    /\ UNCHANGED <<others, config, check, hosting, new_series, idx, locals, calls,
                   result, taken, closed>>

\* what the loop of cleanup_pullrequest does with one pull request
CleanupVerdict(pr, series_list) ==
    IF pr_get_sid(pr.title) = None THEN "skip"
    ELSE IF sid_in_series_list(pr_get_sid(pr.title), series_list) THEN "keep"
    ELSE "close"

\* one turn of the loop
CleanupStep ==
    /\ pc = "cleanup_loop"
    /\ cidx < Len(cleanup_prs)
    /\ LET pr == cleanup_prs[cidx + 1]
       IN IF CleanupVerdict(pr, new_series) = "close"
          THEN /\ closed' = Append(closed, pr.number)
               /\ prs' = {o \in prs : o.number # pr.number}
          ELSE UNCHANGED <<closed, prs>>
    /\ cidx' = cidx + 1
    /\ UNCHANGED <<others, config, check, next_pr, new_series, idx, pc, locals, calls,
                   result, taken, cleanup_prs, cleanups>>

\* the loop is over: main returns
CleanupDone ==
    /\ pc = "cleanup_loop"
    /\ cidx = Len(cleanup_prs)
    /\ pc' = "done"
    /\ UNCHANGED <<others, config, check, hosting, new_series, idx, locals, calls,
                   result, taken, cleanup>>

Next ==
    \/ Main
    \/ SeriesNotForRepo
    \/ SeriesPrExists
    \/ SeriesStart
    \/ RunSeriesDone
    \/ CheckoutBase
    \/ CheckoutBranch
    \/ ApplyPatch
    \/ NotifySkipped
    \/ Notify
    \/ PrDisabled
    \/ GitPush
    \/ CreatePr
    \/ CleanupStart
    \/ CleanupStep
    \/ CleanupDone

Spec == Init /\ [][Next]_vars

(* ------------------------------------------------------------------ *)
(* Vocabulary of the properties                                        *)
(* ------------------------------------------------------------------ *)
\* the calls of one kind made for the current series, in order
Calls(op) == SelectSeq(calls, LAMBDA e : e.op = op)

Called(op) == \E i \in 1..Len(calls) : calls[i].op = op

\* series_check_patches is running
InCheck == pc \in {"checkout_base", "checkout_branch", "apply", "after_loop",
                   "create_pr"}

\* series_check_patches has just returned to run_series
Returned == pc = "run_series" /\ result # "none"

\* the series the entries of calls were made for
Checked == IF pc = "run_series" THEN new_series[idx] ELSE new_series[idx + 1]

\* both checkouts succeeded, so already_checked has been determined
LoopReached ==
    \E i \in 1..Len(calls) :
        calls[i].op = "git_checkout" /\ calls[i].create_branch /\ calls[i].rc = 0

\* some patch of the current series failed to apply
SomePatchFailed ==
    \E i \in 1..Len(calls) : calls[i].op = "git_am" /\ calls[i].rc # 0

\* every patch of the current series has been applied
AllApplied ==
    /\ Len(Calls("git_am")) = Len(Checked.patches)
    /\ ~SomePatchFailed

PendingIds == {new_series[i].id : i \in 1..Len(new_series)}

\* git_am was invoked on the patches in series order, up to the first failure
AmInSeriesOrder ==
    LET ams == Calls("git_am")
    IN /\ Len(ams) <= Len(Checked.patches)
       /\ \A i \in 1..Len(ams) : ams[i].patch = Checked.patches[i].id
       /\ \A i \in 1..(Len(ams) - 1) : ams[i].rc = 0
       /\ pc = "apply" => Len(ams) = pidx - 1 /\ ~SomePatchFailed
       /\ pc # "apply" => AllApplied \/ SomePatchFailed

(* ------------------------------------------------------------------ *)
(* Properties                                                          *)
(* ------------------------------------------------------------------ *)

\* C1: with dry_run false and the first patch pending, post_check is called
\* under context pre-ci_am once per attempted patch, in series order, with
\* verdict 1 for every patch that applied and verdict 3 for the first that
\* did not; git_am stops at the first failure, so later patches get neither
\* git_am nor post_check; when all apply, verdict 1 is posted for each of the
\* N patches and verdict 3 never.
C1_VerdictPerPatch ==
    ((InCheck \/ Returned) /\ LoopReached /\ ~dry_run /\ ~already_checked) =>
        LET ams == Calls("git_am")
            posts == Calls("post_check")
        IN /\ AmInSeriesOrder
           /\ Len(posts) = Len(ams)
           /\ \A i \in 1..Len(posts) :
                 /\ posts[i].patch = Checked.patches[i].id
                 /\ posts[i].context = "pre-ci_am"
                 /\ posts[i].verdict = IF ams[i].rc = 0 THEN 1 ELSE 3

\* C1 witness: a 3-patch series whose patch 2 failed: verdicts 1 and 3 were
\* posted for patches 1 and 2 and patch 3 was not attempted.
C1_Witness ==
    /\ Returned /\ ~dry_run /\ ~already_checked
    /\ Len(Checked.patches) = 3
    /\ Len(Calls("git_am")) = 2
    /\ Len(Calls("post_check")) = 2
    /\ Calls("post_check")[1].verdict = 1
    /\ Calls("post_check")[2].verdict = 3

\* the pull requests of the list get_prs returned that the loop has finished
\* and whose tag names no pending series
StaleSeen ==
    SelectSeq(SubSeq(cleanup_prs, 1, cidx),
              LAMBDA pr : /\ pr_get_sid(pr.title) # None
                          /\ IntOf(pr_get_sid(pr.title)) \notin PendingIds)

\* C2: cleanup_pullrequest calls close_pr on exactly the open pull requests
\* whose title yields a tag with the id of no series of new_series; untagged
\* pull requests and those of a series of new_series are never closed.
C2_ClosesExactlyStale ==
    /\ Len(closed) = Len(StaleSeen)
    /\ \A i \in 1..Len(closed) : closed[i] = StaleSeen[i].number

\* C2 witness: with the PRs of series 10 and 99 and an untagged PR open and
\* series 10 pending, the finished cleanup closed the PR of series 99 only.
C2_Witness ==
    /\ pc = "done"
    /\ cleanups = 1
    /\ Len(cleanup_prs) = 3
    /\ PendingIds = {10}
    /\ closed = <<OldPR99.number>>
    /\ prs = {OldPR10, OldPRUnrelated}

\* C3 (as claimed): every run, also one whose pending list is empty, visits
\* each pending series once in list order, then runs the cleanup exactly
\* once, so that no tagged PR of a series that is not pending stays open.
C3_RunEndsWithCleanup ==
    pc = "done" =>
        /\ visited = [i \in 1..Len(new_series) |-> new_series[i].id]
        /\ cleanups = 1
        /\ \A pr \in prs :
              pr_get_sid(pr.title) # None =>
                 IntOf(pr_get_sid(pr.title)) \in PendingIds

\* C4: with dry_run set, neither post_check nor email.send is ever invoked.
C4_DryRunNoTrackerWriteNoSend ==
    dry_run => ~Called("post_check") /\ ~Called("send")

\* C4 witness: a dry run in which a patch failed to apply and
\* series_check_patches returned.
C4_Witness ==
    Returned /\ dry_run /\ LoopReached /\ SomePatchFailed /\ ~already_checked

\* C5 (as claimed): with dry_run set, create_pr is never invoked.
C5_DryRunNoCreatePr ==
    dry_run => ~Called("create_pr")

\* no check is posted and no notification is composed or sent
NoReportNoNotification ==
    /\ ~Called("post_check")
    /\ ~Called("set_receivers")
    /\ ~Called("compose")
    /\ ~Called("send")

\* C6 (as claimed): when the first patch's check is not pending, nothing is
\* posted and no notification is composed or sent, git_am still runs in
\* series order up to the first failure and, when all patches applied and
\* disable_pr is false, git_push and create_pr are both invoked.
C6_AlreadyCheckedStillPushesAndCreates ==
    ((InCheck \/ Returned) /\ LoopReached /\ already_checked) =>
        /\ NoReportNoNotification
        /\ AmInSeriesOrder
        /\ (Returned /\ AllApplied /\ ~disable_pr) =>
              Called("git_push") /\ Called("create_pr")

\* C6 (amended): as above, but create_pr is invoked exactly when the push
\* that git_push made succeeded.
C6_AlreadyCheckedKeepsVcs ==
    ((InCheck \/ Returned) /\ LoopReached /\ already_checked) =>
        /\ NoReportNoNotification
        /\ AmInSeriesOrder
        /\ (Returned /\ AllApplied /\ ~disable_pr) =>
              /\ Len(Calls("git_push")) = 1
              /\ Called("create_pr") <=> Calls("git_push")[1].rc = 0

\* C6 witness: an already checked series, not in dry run, whose patches all
\* applied, was pushed and got its pull request.
C6_Witness ==
    /\ Returned /\ LoopReached /\ already_checked /\ ~dry_run
    /\ AllApplied
    /\ Called("git_push") /\ Called("create_pr")

\* C7: create_pr is invoked only after every patch applied, with disable_pr
\* false and after a successful git_push of the series branch; then exactly
\* once, with title "[PW_SID:<id>] <name>", the first patch's content as body,
\* the configured branch as base and the series id as head.  With disable_pr
\* set neither git_push nor create_pr is invoked and the series returns True.
C7_CreatePrAfterPush ==
    (InCheck \/ Returned) =>
        /\ \A j \in 1..Len(calls) :
              calls[j].op = "create_pr" =>
                 /\ ~disable_pr
                 /\ AllApplied
                 /\ j = Len(calls)
                 /\ Len(Calls("create_pr")) = 1
                 /\ calls[j - 1].op = "git_push"
                 /\ calls[j - 1].rc = 0
                 /\ calls[j - 1].ref = Str(Checked.id)
                 /\ Len(Calls("git_push")) = 1
                 /\ calls[j].title = <<"[", "PW_SID:">> \o Str(Checked.id)
                                        \o <<"]", " ">> \o Checked.name
                 /\ Checked.name # None
                 /\ IntOf(pr_get_sid(calls[j].title)) = Checked.id
                 /\ calls[j].body = Checked.patches[1].content
                 /\ calls[j].base = branch
                 /\ calls[j].head = Str(Checked.id)
        /\ (Returned /\ AllApplied /\ ~disable_pr
               /\ Called("git_push") /\ Calls("git_push")[1].rc = 0) =>
              Called("create_pr")
        /\ disable_pr => ~Called("git_push") /\ ~Called("create_pr")
        /\ (Returned /\ disable_pr /\ LoopReached /\ AllApplied) => result = "True"

\* C7 witness: the pull request of a series whose name was missing was
\* requested after its push.
C7_Witness ==
    /\ Returned
    /\ Checked.id = Series100.id
    /\ Called("create_pr")
    /\ result = "True"

\* C8: email.send is invoked for a series iff one of its patches failed to
\* apply and neither dry_run nor already_checked holds; at most once, after
\* the failing patch's verdict 3 was posted; never after a failed checkout,
\* branch creation, push or create_pr.
C8_SendIffApplyFailed ==
    /\ Returned =>
          (Called("send") <=> (SomePatchFailed /\ ~dry_run /\ ~already_checked))
    /\ Len(Calls("send")) <= 1
    /\ \A j \in 1..Len(calls) :
          calls[j].op = "send" =>
             \E i \in 1..(j - 1) :
                /\ calls[i].op = "post_check"
                /\ calls[i].verdict = 3
                /\ \E a \in 1..(i - 1) :
                      /\ calls[a].op = "git_am"
                      /\ calls[a].rc # 0
                      /\ calls[a].patch = calls[i].patch
    /\ (\E i \in 1..Len(calls) :
           \/ calls[i].op \in {"git_checkout", "git_push"} /\ calls[i].rc # 0
           \/ calls[i].op = "create_pr" /\ ~calls[i].ok)
          => ~Called("send")

\* C8 witness: the notification of a failed series was sent.
C8_Witness ==
    Returned /\ Called("send") /\ SomePatchFailed /\ result = "False"

\* C9 (as claimed): in a dry run a series that failed to apply still has its
\* notification composed with the captured diagnostic; only send is skipped.
C9_DryRunStillComposes ==
    (Returned /\ dry_run /\ SomePatchFailed) =>
        /\ Called("set_receivers")
        /\ \E i \in 1..Len(calls) :
              calls[i].op = "compose" /\ calls[i].body = EMAIL_MESSAGE(content)
        /\ ~Called("send")

\* the program has a next step to take
Running ==
    \/ pc \in {"main", "checkout_base", "checkout_branch", "create_pr", "cleanup"}
    \/ pc = "run_series" /\ idx <= Len(new_series)
    \/ pc = "apply" /\ pidx <= Len(new_series[idx + 1].patches)
    \/ pc = "after_loop" /\ (ENABLED NotifySkipped \/ ENABLED Notify
                                \/ ENABLED PrDisabled \/ ENABLED GitPush)
    \/ pc = "cleanup_loop" /\ cidx <= Len(cleanup_prs)

\* a call of the current series failed
FailedCall(e) ==
    \/ e.op \in {"git_checkout", "git_push", "git_am"} /\ e.rc # 0
    \/ e.op \in {"create_pr", "post_check"} /\ ~e.ok

\* C10: a failed checkout, branch creation, apply, tracker call, push or PR
\* creation ends at most the rest of its series: the failing checkout, push or
\* create_pr is the last call of the series and a failed git_am is followed by
\* no other git_am, git_push or create_pr; the run goes on: it ends only when
\* every pending series was taken, in order, and the cleanup has run once.
C10_FailureEndsOnlyTheSeries ==
    /\ \A i \in 1..Len(calls) :
          /\ (calls[i].op \in {"git_checkout", "git_push", "create_pr"}
                 /\ FailedCall(calls[i])) => i = Len(calls)
          /\ (calls[i].op = "git_am" /\ FailedCall(calls[i])) =>
                \A j \in (i + 1)..Len(calls) :
                   calls[j].op \notin {"git_am", "git_push", "create_pr"}
    /\ (Returned /\ \E i \in 1..Len(calls) :
                       calls[i].op # "post_check" /\ FailedCall(calls[i]))
          => result = "False"
    /\ (pc = "done" /\ Len(new_series) > 0) =>
          /\ visited = [i \in 1..Len(new_series) |-> new_series[i].id]
          /\ Len(outcomes) = Len(new_series)
          /\ cleanups = 1
    /\ pc # "done" => Running

\* C10 witness: the run ended after a first series that failed and a second
\* one that was still processed and got its pull request.
C10_Witness ==
    /\ pc = "done"
    /\ Len(outcomes) = 2
    /\ outcomes[1] = "False"
    /\ outcomes[2] = "True"
    /\ cleanups = 1

(* ------------------------------------------------------------------ *)
(* One call of filter_repo_space, step by step                         *)
(* ------------------------------------------------------------------ *)
\* diffs as git format-patch writes them
NewFileDiff == JoinLines(<<<<"---", " ", "/", "dev", "/", "null">>,
                           <<"+++", " ", "b", "/", "new", ".c">>>>)
MissingDiff == JoinLines(<<<<"---", " ", "a", "/", "missing", ".c">>,
                           <<"+++", " ", "b", "/", "missing", ".c">>>>)
FilterDiffs == {None, MakefileDiff, NewFileDiff, MissingDiff,
                NewFileDiff \o <<"\n">> \o MakefileDiff}

FilterNames == {<<"RFC", ":", " ", "BlueZ", " ", "feature">>,
                <<"BlueZ", " ", "foo">>,
                <<"my", " ", "RFC">>,
                <<"bar">>}

FilterExcludes == {<<>>, <<[anchor |-> TRUE, lit |-> <<"RFC">>]>>}
FilterIncludes == {<<>>,
                   <<[anchor |-> TRUE, lit |-> <<"BlueZ">>]>>,
                   <<[anchor |-> TRUE, lit |-> <<"WIP">>],
                     [anchor |-> FALSE, lit |-> <<"bluez">>]>>}

\* the source tree: absent, empty, with the Makefile
FilterTrees == {{}, {src_dir}, fs}

\* series of one or two patches, patch i with id i
FilterSeries ==
    {[id |-> 10, name |-> n, patches |-> ps] :
        n \in FilterNames,
        ps \in {<<[id |-> 1, diff |-> d]>> : d \in FilterDiffs}
               \cup {<<[id |-> 1, diff |-> d], [id |-> 2, diff |-> e]>> :
                        d \in FilterDiffs, e \in FilterDiffs}}

\* a program that has not started main, with nothing on the tracker and
\* no pull request open
Quiet ==
    /\ dry_run = FALSE
    /\ disable_pr = FALSE
    /\ check = [p \in PatchIds |-> "pending"]
    /\ prs = {}
    /\ next_pr = 1
    /\ BeforeMain

InitFilter ==
    /\ Quiet
    /\ dfa = Idle
    /\ \E sp \in [exclude : FilterExcludes, include : FilterIncludes],
          sr \in FilterSeries, tree \in FilterTrees :
          flt = [pc |-> "exclude", space_details |-> sp, series |-> sr,
                 fs |-> tree, fetched |-> <<>>, tested |-> <<>>,
                 file_list |-> <<>>, k |-> 1, result |-> "none"]

FltReturn(r) == flt' = [flt EXCEPT !.pc = "done", !.result = r]

\* faulty variant: the exclude patterns are never consulted
FltExclude_never_matches ==
    /\ flt.pc = "exclude"
    /\ flt' = [flt EXCEPT !.pc = "include"]
    /\ UNCHANGED <<config, check, hosting, new_series, idx, pc, locals,
                   calls, result, taken, cleanup, history, dfa>>

\* lines 123-127
FltExclude ==
    /\ flt.pc = "exclude"
    /\ IF \E i \in 1..Len(flt.space_details.exclude) :
            ReSearchI(flt.space_details.exclude[i], flt.series.name)
       THEN FltReturn(FALSE)
       ELSE flt' = [flt EXCEPT !.pc = "include"]
    /\ UNCHANGED <<config, check, hosting, new_series, idx, pc, locals,
                   calls, result, taken, cleanup, history, dfa>>

\* faulty variant: an include match does not return
FltInclude_falls_through ==
    /\ flt.pc = "include"
    /\ flt' = [flt EXCEPT !.pc = "files"]
    /\ UNCHANGED <<config, check, hosting, new_series, idx, pc, locals,
                   calls, result, taken, cleanup, history, dfa>>

\* lines 129-133
FltInclude ==
    /\ flt.pc = "include"
    /\ IF \E i \in 1..Len(flt.space_details.include) :
            ReSearchI(flt.space_details.include[i], flt.series.name)
       THEN FltReturn(TRUE)
       ELSE flt' = [flt EXCEPT !.pc = "files"]
    /\ UNCHANGED <<config, check, hosting, new_series, idx, pc, locals,
                   calls, result, taken, cleanup, history, dfa>>

\* the patch ids ci_data.pw.get_patch is called with by series_get_file_list
Fetched(series) == [i \in 1..Len(series.patches) |-> series.patches[i].id]

\* faulty variant: an empty file list is not rejected
FltFileList_accepts_empty ==
    /\ flt.pc = "files"
    /\ LET file_list == series_get_file_list(flt.series, TRUE)
       IN IF Len(file_list) = 0
          THEN flt' = [flt EXCEPT !.pc = "done", !.result = TRUE,
                                  !.fetched = Fetched(flt.series)]
          ELSE flt' = [flt EXCEPT !.pc = "exists", !.k = 1,
                                  !.file_list = file_list,
                                  !.fetched = Fetched(flt.series)]
    /\ UNCHANGED <<config, check, hosting, new_series, idx, pc, locals,
                   calls, result, taken, cleanup, history, dfa>>

\* lines 135-140
FltFileList ==
    /\ flt.pc = "files"
    /\ LET file_list == series_get_file_list(flt.series, TRUE)
       IN IF Len(file_list) = 0
          THEN flt' = [flt EXCEPT !.pc = "done", !.result = FALSE,
                                  !.fetched = Fetched(flt.series)]
          ELSE flt' = [flt EXCEPT !.pc = "exists", !.k = 1,
                                  !.file_list = file_list,
                                  !.fetched = Fetched(flt.series)]
    /\ UNCHANGED <<config, check, hosting, new_series, idx, pc, locals,
                   calls, result, taken, cleanup, history, dfa>>

\* lines 143-152: one turn of the loop over file_list
FltExists ==
    /\ flt.pc = "exists"
    /\ LET file_path == PathJoin(src_dir, flt.file_list[flt.k])
           tested == Append(flt.tested, file_path)
       IN IF file_path \notin flt.fs
          THEN flt' = [flt EXCEPT !.pc = "done", !.result = FALSE,
                                  !.tested = tested]
          ELSE IF flt.k = Len(flt.file_list)
          THEN flt' = [flt EXCEPT !.pc = "done", !.result = TRUE,
                                  !.tested = tested]
          ELSE flt' = [flt EXCEPT !.k = flt.k + 1, !.tested = tested]
    /\ UNCHANGED <<config, check, hosting, new_series, idx, pc, locals,
                   calls, result, taken, cleanup, history, dfa>>

NextFilter ==
    \/ FltExclude
    \/ FltInclude
    \/ FltFileList
    \/ FltExists

SpecFilter == InitFilter /\ [][NextFilter]_vars

\* the call of filter_repo_space has returned
FltDone == flt.pc = "done"
MatchesExclude ==
    \E i \in 1..Len(flt.space_details.exclude) :
        ReSearchI(flt.space_details.exclude[i], flt.series.name)
MatchesInclude ==
    \E i \in 1..Len(flt.space_details.include) :
        ReSearchI(flt.space_details.include[i], flt.series.name)
\* the paths the patches of the series modify, files they create left out
Touched == series_get_file_list(flt.series, TRUE)
UnderRoot(filename) == src_dir \o <<"/">> \o filename
AllTouchedExist ==
    \A i \in 1..Len(Touched) : UnderRoot(Touched[i]) \in flt.fs

\* the step-by-step call returns what the operator filter_repo_space gives
FltAgreesWithOperator ==
    FltDone => flt.result = filter_repo_space(flt.space_details, flt.series,
                                              src_dir, flt.fs)

\* C11: a series whose name matches an exclude pattern is rejected, also
\* when the name matches an include pattern and every file it touches
\* exists; the decision is taken before the include rule and before any
\* patch is fetched or any path is tested
C11_ExcludeFirst ==
    (flt.pc \notin {"idle", "exclude"} /\ MatchesExclude)
        => /\ FltDone
           /\ flt.result = FALSE
           /\ flt.fetched = <<>>
           /\ flt.tested = <<>>

C11_Witness ==
    /\ FltDone
    /\ MatchesExclude
    /\ MatchesInclude
    /\ Len(Touched) > 0
    /\ AllTouchedExist
    /\ flt.result = FALSE

\* C12: a series whose name matches no exclude pattern and some include
\* pattern is accepted without file inspection: get_patch is not called
\* and no path is tested, also when the source tree does not exist
C12_IncludeWithoutInspection ==
    (flt.pc \notin {"idle", "exclude", "include"}
        /\ ~MatchesExclude /\ MatchesInclude)
        => /\ FltDone
           /\ flt.result = TRUE
           /\ flt.fetched = <<>>
           /\ flt.tested = <<>>

C12_Witness ==
    /\ FltDone
    /\ ~MatchesExclude
    /\ MatchesInclude
    /\ flt.fs = {}
    /\ flt.result = TRUE

\* C13: a series whose name matches neither an exclude nor an include
\* pattern is rejected when its file list without new files is empty, and
\* otherwise accepted exactly when every path of the list exists under
\* the source tree
C13_FileRule ==
    (FltDone /\ ~MatchesExclude /\ ~MatchesInclude)
        => flt.result = (Len(Touched) > 0 /\ AllTouchedExist)

C13_Witness ==
    /\ FltDone
    /\ ~MatchesExclude
    /\ ~MatchesInclude
    /\ Len(Touched) > 0
    /\ AllTouchedExist
    /\ flt.result = TRUE
    /\ Len(flt.tested) = Len(Touched)

(* ------------------------------------------------------------------ *)
(* cleanup_pullrequest called twice with the same candidate list       *)
(* ------------------------------------------------------------------ *)
OldPR100 == [number |-> 4, title |-> PrTitle(NamedSeries(Series100))]
\* a second pull request of series 99, the tag inside other text
OldPR99b == [number |-> 5,
             title |-> <<"Re:", " ", "[", "PW_SID:", "9", "9", "]">>]
ReconcilePRs == OldPRs \cup {OldPR100, OldPR99b}

\* main has reached cleanup_pullrequest(ci_data, new_series)
InitReconcile ==
    /\ dry_run = FALSE
    /\ disable_pr = FALSE
    /\ check = [p \in PatchIds |-> "pending"]
    /\ prs \in SUBSET ReconcilePRs
    /\ next_pr = Cardinality(ReconcilePRs) + 1
    /\ new_series \in SeriesLists(MaxPending)
    /\ idx = Len(new_series)
    /\ pc = "cleanup"
    /\ pidx = 1
    /\ already_checked = FALSE
    /\ verdict = TRUE
    /\ content = <<>>
    /\ calls = <<>>
    /\ result = "none"
    /\ visited = <<>>
    /\ outcomes = <<>>
    /\ cleanup_prs = <<>>
    /\ cidx = 0
    /\ closed = <<>>
    /\ cleanups = 0
    /\ runs = 1
    /\ check0 = check
    /\ first_pr = next_pr
    /\ prev_ids = <<>>
    /\ same_list = FALSE
    /\ flt = Idle
    /\ dfa = Idle

\* cleanup_pullrequest(ci_data, new_series) is called once more
CleanupAgain ==
    /\ pc = "done"
    /\ cleanups = 1
    /\ pc' = "cleanup"
    /\ UNCHANGED <<others, config, check, hosting, new_series, idx, locals,
                   calls, result, taken, cleanup>>

NextReconcile ==
    \/ CleanupStart
    \/ CleanupStep
    \/ CleanupDone
    \/ CleanupAgain

SpecReconcile == InitReconcile /\ [][NextReconcile]_vars

\* C14: reconcile is idempotent: a second cleanup_pullrequest with the
\* same candidate list, on the open-PR list the first one left, calls
\* close_pr on no pull request
C14_SecondCleanupClosesNothing ==
    [][cleanups = 2 => closed' = closed]_vars

C14_Witness ==
    /\ cleanups = 2
    /\ pc = "done"
    /\ Len(closed) > 1
    /\ \E pr \in prs : pr_get_sid(pr.title) # None

(* ------------------------------------------------------------------ *)
(* One call of series_get_file_list, step by step                      *)
(* ------------------------------------------------------------------ *)
MaxLines == 3

\* lines a diff text can hold
DiffLines == {<<"---", " ", "a", "/", "Makefile">>,
              <<"---", " ", "/", "dev", "/", "null">>,
              <<"+++", " ", "b", "/", "new", ".c">>,
              <<"---", " ", "a", "/", "new", ".c">>,
              <<"---", " ", "a", "/", "dev", "/", "null", ".c">>,
              <<"---", " ", "Makefile">>}

\* full_patch['diff']: None or a text of at most MaxLines lines
DiffTexts ==
    {None} \cup {JoinLines(lines) :
                    lines \in UNION {[1..n -> DiffLines] : n \in 0..MaxLines}}

InitDiff ==
    /\ Quiet
    /\ flt = Idle
    /\ \E ps \in {<<[id |-> 1, diff |-> d]>> : d \in DiffTexts}
                 \cup {<<[id |-> 1, diff |-> d], [id |-> 2, diff |-> e]>> :
                          d \in DiffTexts, e \in DiffTexts},
          ignore_new_file \in BOOLEAN :
          dfa = [pc |-> "loop", patches |-> ps,
                 ignore_new_file |-> ignore_new_file, i |-> 0,
                 file_list |-> <<>>, new_file_list |-> <<>>,
                 per_patch |-> <<>>, result |-> <<>>]

\* lines 86-91: one turn of the loop over series['patches']
DfaGetPatch ==
    /\ dfa.pc = "loop"
    /\ dfa.i < Len(dfa.patches)
    /\ LET diff == dfa.patches[dfa.i + 1].diff
       IN dfa' = [dfa EXCEPT
                    !.i = dfa.i + 1,
                    !.file_list = dfa.file_list \o patch_get_file_list(diff),
                    !.new_file_list =
                        IF dfa.ignore_new_file
                        THEN dfa.new_file_list \o patch_get_new_file_list(diff)
                        ELSE dfa.new_file_list,
                    !.per_patch = Append(dfa.per_patch,
                                         patch_get_file_list(diff))]
    /\ UNCHANGED <<config, check, hosting, new_series, idx, pc, locals,
                   calls, result, taken, cleanup, history, flt>>

\* lines 93-104
DfaReturn ==
    /\ dfa.pc = "loop"
    /\ dfa.i = Len(dfa.patches)
    /\ dfa' = [dfa EXCEPT
                 !.pc = "done",
                 !.result =
                    IF dfa.ignore_new_file = FALSE
                       \/ Len(dfa.new_file_list) = 0
                    THEN dfa.file_list
                    ELSE Without(dfa.file_list, dfa.new_file_list)]
    /\ UNCHANGED <<config, check, hosting, new_series, idx, pc, locals,
                   calls, result, taken, cleanup, history, flt>>

NextDiff ==
    \/ DfaGetPatch
    \/ DfaReturn

SpecDiff == InitDiff /\ [][NextDiff]_vars

\* the step-by-step call returns what the operator series_get_file_list gives
DfaAgreesWithOperator ==
    dfa.pc = "done"
        => dfa.result = series_get_file_list([patches |-> dfa.patches],
                                             dfa.ignore_new_file)

\* a removed-file marker line "--- <path>" and its path
IsMarker(line) == Len(line) >= 2 /\ line[1] = "---" /\ line[2] = " "
\* an added-file marker line "+++ <path>"
IsAddedMarker(line) == Len(line) >= 2 /\ line[1] = "+++" /\ line[2] = " "
MarkerPath(line) == SubSeq(line, 3, Len(line))
NullFile == <<"/", "dev", "/", "null">>
\* the path without its leading segment, the first "/" included
AfterFirstSlash(path) == SubSeq(path, Find(path, <<"/">>) + 1, Len(path))

\* one entry per marker whose path is not the null file, in line order
EntriesOfMarkers(diff) ==
    IF diff = None THEN <<>>
    ELSE LET markers == SelectSeq(SplitLines(diff), LAMBDA l :
                            IsMarker(l) /\ MarkerPath(l) # NullFile)
         IN [k \in 1..Len(markers) |-> AfterFirstSlash(MarkerPath(markers[k]))]

\* C15: for every diff text patch_get_file_list returns, in line order,
\* one entry per removed-file marker whose path is not /dev/null, the entry
\* being the marker's path without its leading prefix segment
C15_OneEntryPerMarker ==
    dfa.pc # "idle"
        => \A j \in 1..dfa.i :
              dfa.per_patch[j] = EntriesOfMarkers(dfa.patches[j].diff)

\* the files some patch of the series creates: a /dev/null marker
\* immediately followed by the added-file marker of the file
LinesOf(diff) == IF diff = None THEN <<>> ELSE SplitLines(diff)
CreatedFiles ==
    {AfterFirstSlash(MarkerPath(LinesOf(dfa.patches[jl[1]].diff)[jl[2] + 1])) :
        jl \in
            {jl \in (1..Len(dfa.patches)) \X (1..MaxLines) :
                LET lines == LinesOf(dfa.patches[jl[1]].diff)
                IN /\ jl[2] + 1 <= Len(lines)
                   /\ IsMarker(lines[jl[2]])
                   /\ MarkerPath(lines[jl[2]]) = NullFile
                   /\ IsAddedMarker(lines[jl[2] + 1])}}

\* the result is the file lists of the patches, in order, without every
\* path patch_get_new_file_list reports for a patch of the series
ResultIsFilesWithoutReported ==
    (dfa.pc = "done" /\ dfa.ignore_new_file)
        => dfa.result =
              SelectSeq(FileListOver(dfa.patches, 1), LAMBDA f :
                  ~InSeq(f, NewFileListOver(dfa.patches, 1)))

\* C16: series_get_file_list(series, ignore_new_file=True) returns the
\* file lists of the patches, in order, without every path
\* patch_get_new_file_list reports for a patch of the series, and a file
\* that a patch of the series creates never appears in the result
C16_NewFilesLeftOut ==
    (dfa.pc = "done" /\ dfa.ignore_new_file)
        => /\ ResultIsFilesWithoutReported
           /\ \A f \in CreatedFiles : ~InSeq(f, dfa.result)

(* ------------------------------------------------------------------ *)
(* Several runs of main, one after the other                           *)
(* ------------------------------------------------------------------ *)
MaxRuns == 2

\* the first run: no patch has a check yet
InitRuns ==
    /\ dry_run \in BOOLEAN
    /\ disable_pr \in BOOLEAN
    /\ check = [p \in PatchIds |-> "pending"]
    /\ prs \in SUBSET OldPRs
    /\ next_pr = Cardinality(OldPRs) + 1
    /\ BeforeMain
    /\ flt = Idle
    /\ dfa = Idle

\* main has returned and the program is started again with the same
\* arguments; the tracker and the hosting platform keep their state
NewRun ==
    /\ pc = "done"
    /\ runs < MaxRuns
    /\ runs' = runs + 1
    /\ check0' = check
    /\ first_pr' = next_pr
    /\ prev_ids' = Ids(new_series)
    /\ same_list' = FALSE
    /\ new_series' = <<>>
    /\ idx' = 0
    /\ pc' = "main"
    /\ pidx' = 1
    /\ already_checked' = FALSE
    /\ verdict' = TRUE
    /\ content' = <<>>
    /\ calls' = <<>>
    /\ result' = "none"
    /\ visited' = <<>>
    /\ outcomes' = <<>>
    /\ cleanup_prs' = <<>>
    /\ cidx' = 0
    /\ closed' = <<>>
    /\ cleanups' = 0
    /\ UNCHANGED <<config, check, hosting, flt, dfa>>

NextRuns ==
    \/ Next
    \/ NewRun

SpecRuns == InitRuns /\ [][NextRuns]_vars

\* C17: over runs on the same pending series a patch that is not pending
\* when a run starts receives no post_check in that run, and no patch
\* receives two post_check calls in one run
C17_ReportedAtMostOnce ==
    LET posts == Calls("post_check")
    IN /\ \A i, j \in 1..Len(posts) :
             i # j => posts[i].patch # posts[j].patch
       /\ (runs = 1 \/ same_list)
             => \A i \in 1..Len(posts) : check0[posts[i].patch] = "pending"

\* the id cleanup_pullrequest parses from the title of a pull request is id
TaggedWith(pr, id) ==
    pr_get_sid(pr.title) # None /\ IntOf(pr_get_sid(pr.title)) = id

\* the loop of run_series has just left a series as 'PR exists already'
JustSkipped ==
    /\ pc = "run_series"
    /\ idx > 0
    /\ Len(outcomes) = idx
    /\ outcomes[idx] = "PR exists already"

\* C18: run_series skips a series as 'PR exists already' only if an open
\* pull request carries the tag of exactly that series id; a pull request
\* tagged PW_SID:100 does not make series 10 skipped
C18_SkipOnlyForOwnTag ==
    JustSkipped => \E pr \in prs : TaggedWith(pr, new_series[idx].id)

\* C19: a pull request created during a run is not closed by the cleanup
\* of that run: its series is in the list cleanup_pullrequest receives
C19_CleanupKeepsNewPrs ==
    /\ \A i \in 1..Len(closed) : closed[i] < first_pr
    /\ \A e \in {calls[i] : i \in 1..Len(calls)} :
          e.op = "create_pr"
             => \E k \in 1..Len(new_series) :
                   /\ e.title = PrTitle(new_series[k])
                   /\ CleanupVerdict([number |-> next_pr, title |-> e.title],
                                     new_series) = "keep"

C19_Witness ==
    /\ pc = "done"
    /\ cleanups = 1
    /\ Len(closed) > 0
    /\ \E pr \in prs : pr.number >= first_pr

\* C20: at most one open pull request carries the tag of a series id, and
\* create_pr is not invoked for a series while a pull request tagged with
\* its id is open
C20_OnePrPerSeries ==
    /\ \A p, q \in prs :
          (pr_get_sid(p.title) # None
              /\ pr_get_sid(p.title) = pr_get_sid(q.title)) => p = q
    /\ pc = "create_pr" => ~\E pr \in prs : TaggedWith(pr, Current.id)

\* a later run skips a series whose pull request an earlier run created
C20_Witness ==
    /\ runs > 1
    /\ JustSkipped
    /\ \E pr \in prs :
          /\ pr.number > Cardinality(OldPRs)
          /\ pr.number < first_pr
          /\ TaggedWith(pr, new_series[idx].id)

====
